---- MODULE Spec2Model ----
(***************************************************************************)
(* Model of the PersonalCRM component                                      *)
(* (src/personal_crm_tasks_calendar_v_1.jsx): the task store kept in the   *)
(* React state `tasks`, the localStorage record "personal_crm_tasks_v1",   *)
(* the load and persist effects, the edit form (TaskForm), and the JSON    *)
(* import that runs through an asynchronous FileReader.                    *)
(***************************************************************************)
EXTENDS Integers, Sequences, FiniteSets, TLC

\* ------------------------------------------------------------------------
\* Bounds of the model
\* ------------------------------------------------------------------------
\* number of user actions (clicks, key strokes, file selections) in a run
MaxActs == 3
\* longest task list the Add Task button is used on
MaxTasks == 6
\* most next-steps added to one draft
MaxNextSteps == 2
\* most file reads in flight at once
MaxReads == 1
\* most next-steps of a task whose nearest next-step is computed
MaxNearest == 3
\* number of changes to the filters, the sort key, the view and the calendar
MaxViewActs == 2
\* largest `days` isDueWithinDays is tried with
MaxDays == 4

\* ------------------------------------------------------------------------
\* Values
\* ------------------------------------------------------------------------
CATEGORIES == <<"Dealership", "Family", "Business", "Spiritual", "Personal">>
STATUSES == <<"Active", "Pending", "Completed">>

Range(s) == {s[i] : i \in DOMAIN s}

\* An optional date field `dueDate?: string`.  A calendar date is its day
\* number (> 0).  The three falsy shapes a date field takes in the program:
\* the key is missing, the key holds `undefined`, the key holds "".
NoKey == -2
Undefined == -1
EmptyStr == 0
\* the day `new Date()` falls on
Today == 10

Truthy(d) == d > 0

\* A Date is an instant, counted in hours from 00:00 UTC of day 0.
HoursPerDay == 24

\* new Date(iso) for a date-only string: midnight UTC of that day
ParseDateOnly(d) == d * HoursPerDay

\* new Date(y, m, d): midnight of a day on the local clock
LocalMidnight(d, zone) == d * HoursPerDay - zone

\* the calendar day an instant falls on, on the local clock
LocalDay(x, zone) == (x + zone) \div HoursPerDay

\* date.toISOString().slice(0, 10): the calendar day in UTC
IsoDay(x) == x \div HoursPerDay

\* Text is a sequence of characters; " " is the only whitespace used.
RECURSIVE TrimStart(_)
TrimStart(s) ==
  IF s # <<>> /\ Head(s) = " " THEN TrimStart(Tail(s)) ELSE s

RECURSIVE TrimEnd(_)
TrimEnd(s) ==
  IF s # <<>> /\ s[Len(s)] = " " THEN TrimEnd(SubSeq(s, 1, Len(s) - 1)) ELSE s

\* String.prototype.trim
Trim(s) == TrimEnd(TrimStart(s))

\* outcomes of uid(): Math.random() gives no guarantee of freshness, so the
\* set holds an id already handed out to a seed task (1) and an unused one
UidOutcomes == {1, 6}
uid == UidOutcomes

NextStep(i, t, d) == [id |-> i, text |-> t, dueDate |-> d]

Task(i, t, desc, c, s, d, ns) ==
  [id |-> i, title |-> t, description |-> desc, category |-> c, status |-> s,
   dueDate |-> d, createdAt |-> Today, nextSteps |-> ns]

\* `null` in the state `editing`, and the form state when no form is mounted
NullTask == Task(0, <<>>, <<>>, "", "", NoKey, <<>>)

seedTasks ==
  << Task(1, <<"B">>, <<"p">>, "Dealership", "Active", Today + 1,
          << NextStep(1, <<"c">>, Today) >>),
     Task(2, <<"D">>, <<"b">>, "Family", "Pending", Today + 4,
          << NextStep(2, <<"c">>, Today + 2) >>),
     Task(3, <<"M">>, <<"r">>, "Business", "Active", Today + 2,
          << NextStep(3, <<"a">>, Today + 2) >>),
     Task(4, <<"P">>, <<"m">>, "Spiritual", "Active", NoKey,
          << NextStep(4, <<"s">>, NoKey) >>),
     Task(5, <<"G">>, <<"w">>, "Personal", "Pending", Today + 6,
          << NextStep(5, <<"p">>, Today + 5) >>) >>

\* ------------------------------------------------------------------------
\* JSON
\* ------------------------------------------------------------------------
\* JSON.stringify leaves out a key whose value is undefined.
StringifyDate(d) == IF d = Undefined THEN NoKey ELSE d

\* a stringify that keeps only the id and the date of a next-step
StringifyNextStepNoText(n) ==
  [n EXCEPT !.dueDate = StringifyDate(n.dueDate), !.text = <<>>]

StringifyNextStep(n) == [n EXCEPT !.dueDate = StringifyDate(n.dueDate)]

StringifyTask(t) ==
  [t EXCEPT !.dueDate = StringifyDate(t.dueDate),
            !.nextSteps = [j \in DOMAIN t.nextSteps |->
                             StringifyNextStep(t.nextSteps[j])]]

\* A text (a localStorage value or the content of a file) is described by
\* what JSON.parse makes of it:
\*   "absent"    getItem returned null
\*   "empty"     the string ""
\*   "malformed" JSON.parse throws
\*   "other"     JSON.parse returns a value that is not an array
\*   "array"     JSON.parse returns the array `items`
JsonText(k, items) == [kind |-> k, items |-> items]

\* JSON.stringify(tasks) for an array of tasks
Stringify(ts) == JsonText("array", [i \in DOMAIN ts |-> StringifyTask(ts[i])])

\* The content of the file Export JSON downloads: JSON.stringify(tasks, null,
\* 2), the same value with indentation, which JSON.parse reads alike.
Export(ts) == Stringify(ts)

\* t.dueDate, n.dueDate: reading a key that is missing gives undefined
ReadDate(d) == IF d = NoKey THEN Undefined ELSE d

\* a task list as the values its fields read as
FieldValues(ts) ==
  [i \in DOMAIN ts |->
     [ts[i] EXCEPT !.dueDate = ReadDate(ts[i].dueDate),
                   !.nextSteps = [j \in DOMAIN ts[i].nextSteps |->
                      [ts[i].nextSteps[j] EXCEPT
                         !.dueDate = ReadDate(ts[i].nextSteps[j].dueDate)]]]]

\* some dueDate key of the list holds undefined
HasUndefined(ts) ==
  \E i \in DOMAIN ts :
     \/ ts[i].dueDate = Undefined
     \/ \E j \in DOMAIN ts[i].nextSteps : ts[i].nextSteps[j].dueDate = Undefined

\* ------------------------------------------------------------------------
\* Inputs
\* ------------------------------------------------------------------------
\* task lists found in a stored record or in a file chosen for import
ListA ==
  << Task(7, <<"x">>, <<>>, "Family", "Active", 12,
          << NextStep(8, <<"n">>, 11) >>),
     Task(1, <<"y">>, <<>>, "Business", "Completed", NoKey, <<>>) >>

\* two entries with the same id
ListDup ==
  << Task(7, <<"x">>, <<>>, "Family", "Active", 12, <<>>),
     Task(7, <<"z">>, <<>>, "Personal", "Pending", NoKey,
          << NextStep(8, <<"n">>, NoKey) >>) >>

StoredRecords ==
  { JsonText("absent", <<>>), JsonText("empty", <<>>),
    JsonText("malformed", <<>>), JsonText("other", <<>>),
    JsonText("array", <<>>), JsonText("array", ListA) }

Files ==
  { JsonText("malformed", <<>>), JsonText("other", <<>>),
    JsonText("array", ListA), JsonText("array", ListDup) }

TitleInputs == { <<" ">>, <<"x", " ">> }
DescriptionInputs == { <<" ", "d">> }
NsTextInputs == { <<" ">>, <<"n", " ">> }
DateInputs == { EmptyStr, Today }

VARIABLES
  pc,         \* "load", "persist", "render", "ready" or "crashed"
  mounts,     \* passes of the mount effects still to run (2 under StrictMode)
  queue,      \* values handed to setTasks and not rendered yet
  tasks,      \* the state `tasks`
  storage,    \* localStorage["personal_crm_tasks_v1"]
  showModal,  \* the state `showModal`
  editing,    \* the state `editing`
  task,       \* TaskForm's state `task`
  nsText,     \* TaskForm's state `nsText`
  nsDate,     \* TaskForm's state `nsDate`
  formKind,   \* how the form was last opened: "none", "add" or "edit"
  reads,      \* the FileReaders at work: the text read and when it began
  nActs,      \* user actions handled so far
  boot,       \* the record localStorage held when the page was opened,
              \* kept until the first user action
  ev,         \* the step that led to this state
  query,             \* the state `query`
  activeCategories,  \* the state `activeCategories`
  statusFilter,      \* the state `statusFilter`
  sortKey,           \* the state `sortKey`
  view,              \* the state `view`
  calendarCursor,    \* the state `calendarCursor`, a Date
  calendarMode,      \* the state `calendarMode`
  tz,         \* hours the local clock is ahead of UTC
  now         \* the instant `new Date()` gives

\* the filters, the sort key and the calendar position, with the clock
viewVars == <<query, activeCategories, statusFilter, sortKey, view,
              calendarCursor, calendarMode, tz, now>>

vars == <<pc, mounts, queue, tasks, storage, showModal, editing, task,
          nsText, nsDate, formKind, reads, nActs, boot, ev, viewVars>>

NoFile == JsonText("absent", <<>>)

\* the value of `boot` once the user has acted
Forgotten == JsonText("forgotten", <<>>)

\* op: the handler, effect or callback that ran; task: the task it was given;
\* file: the text it parsed; hit: whether the id it looked for was in the list;
\* during: the user actions handled while the text was being read; undef:
\* whether the list an import replaced held a key with the value undefined
Event(op, t, f, h, n) ==
  [op |-> op, task |-> t, file |-> f, hit |-> h, during |-> n,
   undef |-> FALSE]
Ev(op) == Event(op, NullTask, NoFile, FALSE, 0)

\* the state of the view when the component is constructed
ViewInit ==
  /\ query = <<>>
  /\ activeCategories = CATEGORIES
  /\ statusFilter = "All"
  /\ sortKey = "dueDate"
  /\ view = "grid"
  /\ calendarCursor = now
  /\ calendarMode = "month"

\* noon of Today
Noon == Today * HoursPerDay + 12

Init ==
  /\ tz = 0
  /\ now = Noon
  /\ ViewInit
  /\ pc = "load"
  /\ mounts \in {1, 2}
  /\ queue = <<>>
  /\ tasks = <<>>
  /\ storage \in StoredRecords
  /\ showModal = FALSE
  /\ editing = NullTask
  /\ task = NullTask
  /\ nsText = <<>>
  /\ nsDate = EmptyStr
  /\ formKind = "none"
  /\ reads = <<>>
  /\ nActs = 0
  /\ boot = storage
  /\ ev = Ev("init")

formVars == <<showModal, editing, task, nsText, nsDate, formKind>>

\* ------------------------------------------------------------------------
\* Load and persist effects
\* ------------------------------------------------------------------------
\* the value the load effect hands to setTasks
LoadedValue(raw) ==
  IF raw.kind \in {"absent", "empty", "malformed"}
  THEN JsonText("array", seedTasks)
  ELSE raw

LoadEffect ==
  /\ pc = "load"
  /\ queue' = Append(queue, LoadedValue(storage))
  /\ pc' = "persist"
  /\ ev' = Ev("load")
  /\ UNCHANGED <<mounts, tasks, storage, formVars, reads, nActs, boot>>
  /\ UNCHANGED viewVars

PersistEffect ==
  /\ pc = "persist"
  /\ storage' = Stringify(tasks)
  /\ IF mounts > 1
     THEN /\ mounts' = mounts - 1
          /\ pc' = "load"
     ELSE /\ mounts' = 1
          /\ pc' = IF queue # <<>> THEN "render" ELSE "ready"
  /\ ev' = Ev("persist")
  /\ UNCHANGED <<queue, tasks, formVars, reads, nActs, boot>>
  /\ UNCHANGED viewVars

\* The persist effect when localStorage.setItem throws (the quota is used up,
\* or storage is denied): nothing around the call catches it, the error
\* leaves the effect and React takes the component off the page.
PersistEffectThrows ==
  /\ pc = "persist"
  /\ pc' = "crashed"
  /\ ev' = Ev("persistThrows")
  /\ UNCHANGED <<mounts, queue, tasks, storage, formVars, reads, nActs, boot>>
  /\ UNCHANGED viewVars

\* the render after the mount effects: the last value given to setTasks wins
Render ==
  /\ pc = "render"
  /\ LET v == queue[Len(queue)] IN
       IF v.kind = "array"
       THEN /\ tasks' = v.items
            /\ pc' = "persist"
       ELSE /\ tasks' = tasks
            /\ pc' = "crashed"
  /\ queue' = <<>>
  /\ ev' = Ev("render")
  /\ UNCHANGED <<mounts, storage, formVars, reads, nActs, boot>>
  /\ UNCHANGED viewVars

\* ------------------------------------------------------------------------
\* Store operations
\* ------------------------------------------------------------------------
Ids(ts) == {ts[i].id : i \in DOMAIN ts}

\* upsertTask written as "drop the old entry, put the new one in front"
upsertMoveToFront(prev, t) ==
  <<t>> \o SelectSeq(prev, LAMBDA p : p.id # t.id)

\* upsertTask written with the new task pushed at the end
upsertAppend(prev, t) ==
  LET exists == \E i \in DOMAIN prev : prev[i].id = t.id IN
    IF exists
    THEN [i \in DOMAIN prev |-> IF prev[i].id = t.id THEN t ELSE prev[i]]
    ELSE Append(prev, t)

\* the updater that upsertTask hands to setTasks
upsertTask(prev, t) ==
  LET exists == \E i \in DOMAIN prev : prev[i].id = t.id IN
    IF exists
    THEN [i \in DOMAIN prev |-> IF prev[i].id = t.id THEN t ELSE prev[i]]
    ELSE <<t>> \o prev

\* removeTask dropping the first entry when the id is not in the list
\* (splice(findIndex(...), 1) with findIndex = -1 cut to the list's start)
removeTaskSplice(prev, id) ==
  IF \E i \in DOMAIN prev : prev[i].id = id
  THEN SelectSeq(prev, LAMBDA p : p.id # id)
  ELSE IF prev = <<>> THEN prev ELSE Tail(prev)

\* the updater that removeTask hands to setTasks
removeTask(prev, id) == SelectSeq(prev, LAMBDA p : p.id # id)

\* The persist effect has the dependency list [tasks]: it runs after a render
\* in which `tasks` is another array than before.  map, filter, a spread and
\* JSON.parse all build a new array.
TasksChangedLength(old, new) == Len(old) # Len(new)

TasksChanged(old, new) == TRUE

AfterSetTasks(old, new) == IF TasksChanged(old, new) THEN "persist" ELSE "ready"

\* resetForm; closing the modal unmounts TaskForm and drops its state
resetForm ==
  /\ editing' = NullTask
  /\ showModal' = FALSE
  /\ task' = NullTask
  /\ nsText' = <<>>
  /\ nsDate' = EmptyStr
  /\ UNCHANGED formKind

\* setEditing(t); setShowModal(true): TaskForm mounts with state {...initial}
openForm(t, kind) ==
  /\ formKind' = kind
  /\ editing' = t
  /\ showModal' = TRUE
  /\ task' = t
  /\ nsText' = <<>>
  /\ nsDate' = EmptyStr

\* a user action is counted; the record found at page load is remembered up
\* to the first of them
Counted ==
  /\ nActs' = nActs + 1
  /\ boot' = Forgotten

\* a user action on the task list or the form leaves the view as it is
Acted ==
  /\ Counted
  /\ UNCHANGED viewVars

\* a user action is handled when no effect is pending
CanAct ==
  /\ pc = "ready"
  /\ nActs < MaxActs

\* the tasks drawn on the page: `filtered` with every category active, no
\* status filter and no query
Visible(t) == t.category \in Range(CATEGORIES)

\* the page behind the modal is covered by the overlay (fixed inset-0)
OnPage == CanAct /\ ~showModal

InForm == CanAct /\ showModal /\ editing # NullTask

\* ------------------------------------------------------------------------
\* Handlers of the page
\* ------------------------------------------------------------------------
\* the task the Add Task button puts in `editing`
NewTask(id) == Task(id, <<>>, <<>>, "Dealership", "Active", EmptyStr, <<>>)

AddTaskClick(id) ==
  /\ OnPage
  /\ Len(tasks) < MaxTasks
  /\ openForm(NewTask(id), "add")
  /\ Acted
  /\ ev' = Ev("add")
  /\ UNCHANGED <<pc, mounts, queue, tasks, storage, reads>>

EditClick(i) ==
  /\ OnPage
  /\ Visible(tasks[i])
  /\ openForm(tasks[i], "edit")
  /\ Acted
  /\ ev' = Ev("edit")
  /\ UNCHANGED <<pc, mounts, queue, tasks, storage, reads>>

\* a toggle that walks through the three statuses
ToggleNextCycle(t) ==
  [t EXCEPT !.status = IF t.status = "Active" THEN "Completed"
                       ELSE IF t.status = "Completed" THEN "Pending"
                       ELSE "Active"]

\* the task onToggleComplete hands to upsertTask
ToggleNext(t) ==
  [t EXCEPT !.status = IF t.status = "Completed" THEN "Active" ELSE "Completed"]

OnToggleComplete(i) ==
  /\ OnPage
  /\ Visible(tasks[i])
  /\ LET next == ToggleNext(tasks[i]) IN
       /\ tasks' = upsertTask(tasks, next)
       /\ ev' = Event("toggle", next, NoFile, next.id \in Ids(tasks), 0)
  /\ resetForm
  /\ pc' = AfterSetTasks(tasks, tasks')
  /\ Acted
  /\ UNCHANGED <<mounts, queue, storage, reads>>

OnRemove(i) ==
  /\ OnPage
  /\ Visible(tasks[i])
  /\ tasks' = removeTask(tasks, tasks[i].id)
  /\ pc' = AfterSetTasks(tasks, tasks')
  /\ Acted
  /\ ev' = Event("remove", tasks[i], NoFile, TRUE, 0)
  /\ UNCHANGED <<mounts, queue, storage, formVars, reads>>

\* ------------------------------------------------------------------------
\* Import
\* ------------------------------------------------------------------------
\* onChange of the file input: reader.readAsText(file) starts the read and
\* returns. The file is one of Files or the one Export JSON gives for the
\* list as it is.
ImportChange(f) ==
  /\ OnPage
  /\ Len(reads) < MaxReads
  /\ reads' = Append(reads, [file |-> f, at |-> nActs + 1])
  /\ Acted
  /\ ev' = Event("import", NullTask, f, FALSE, 0)
  /\ UNCHANGED <<pc, mounts, queue, tasks, storage, formVars>>

\* an import that merges the file into the list
ImportedMerge(prev, f) == IF f.kind = "array" THEN f.items \o prev ELSE prev

\* an import that empties the list when the file holds no array
ImportedOrEmpty(prev, f) == IF f.kind = "array" THEN f.items ELSE <<>>

\* what reader.onload leaves in `tasks`
Imported(prev, f) == IF f.kind = "array" THEN f.items ELSE prev

\* reader.onload, a task of the event loop that runs when the read is done
ReaderOnload(k) ==
  /\ pc = "ready"
  /\ k \in DOMAIN reads
  /\ LET f == reads[k].file IN
       /\ tasks' = Imported(tasks, f)
       /\ pc' = IF f.kind = "array" THEN AfterSetTasks(tasks, tasks') ELSE pc
       /\ ev' = [Event("onload", NullTask, f, FALSE, nActs - reads[k].at)
                    EXCEPT !.undef = f.kind = "array" /\ HasUndefined(tasks)]
  /\ reads' = [j \in 1..(Len(reads) - 1) |-> IF j < k THEN reads[j] ELSE reads[j + 1]]
  /\ UNCHANGED <<mounts, queue, storage, formVars, nActs, boot>>
  /\ UNCHANGED viewVars

\* ------------------------------------------------------------------------
\* TaskForm
\* ------------------------------------------------------------------------
\* onChange of an input of the form: setTask({ ...task, field: value })
ChangeField(t) ==
  /\ InForm
  /\ task' = t
  /\ Acted
  /\ ev' = Ev("change")
  /\ UNCHANGED <<pc, mounts, queue, tasks, storage, showModal, editing,
                 nsText, nsDate, formKind, reads>>

TitleChange(v) == ChangeField([task EXCEPT !.title = v])
CategoryChange(c) == ChangeField([task EXCEPT !.category = c])
StatusChange(st) == ChangeField([task EXCEPT !.status = st])
DueDateChange(d) == ChangeField([task EXCEPT !.dueDate = d])
DescriptionChange(v) == ChangeField([task EXCEPT !.description = v])

NsTextChange(v) ==
  /\ InForm
  /\ nsText' = v
  /\ Acted
  /\ ev' = Ev("change")
  /\ UNCHANGED <<pc, mounts, queue, tasks, storage, showModal, editing,
                 task, nsDate, formKind, reads>>

NsDateChange(d) ==
  /\ InForm
  /\ nsDate' = d
  /\ Acted
  /\ ev' = Ev("change")
  /\ UNCHANGED <<pc, mounts, queue, tasks, storage, showModal, editing,
                 task, nsText, formKind, reads>>

\* the Add button of the next-step row
addNextStep(id) ==
  /\ InForm
  /\ Len(task.nextSteps) < MaxNextSteps
  /\ IF Trim(nsText) = <<>>
     THEN UNCHANGED <<task, nsText, nsDate>>
     ELSE /\ LET ns == NextStep(id, Trim(nsText),
                                IF Truthy(nsDate) THEN nsDate ELSE Undefined)
             IN task' = [task EXCEPT !.nextSteps = Append(@, ns)]
          /\ nsText' = <<>>
          /\ nsDate' = EmptyStr
  /\ Acted
  /\ ev' = Ev("addNextStep")
  /\ UNCHANGED <<pc, mounts, queue, tasks, storage, showModal, editing,
                 formKind, reads>>

\* the updater removeNextStep hands to setTask
removeNextStep(t, id) ==
  [t EXCEPT !.nextSteps = SelectSeq(@, LAMBDA n : n.id # id)]

\* the task the submit handler hands to onSave
Clean(t) ==
  [t EXCEPT !.title = Trim(t.title),
            !.description = Trim(t.description),
            !.dueDate = IF Truthy(t.dueDate) THEN t.dueDate ELSE Undefined]

\* the title input is `required`: the browser raises no submit event while
\* its value is empty
Valid(t) == t.title # <<>>

\* onSubmit of the form: onSave(clean), that is upsertTask(clean)
SubmitForm(t, op) ==
  /\ Valid(t)
  /\ tasks' = upsertTask(tasks, Clean(t))
  /\ resetForm
  /\ pc' = AfterSetTasks(tasks, tasks')
  /\ ev' = Event(op, Clean(t), NoFile, t.id \in Ids(tasks), 0)
  /\ UNCHANGED <<mounts, queue, storage, reads>>

\* the Save Task button (type="submit")
SaveClick ==
  /\ InForm
  /\ SubmitForm(task, "save")
  /\ Acted

\* Cancel, the X of the modal, a click on the overlay, the Escape key
CancelClick ==
  /\ InForm
  /\ resetForm
  /\ Acted
  /\ ev' = Ev("cancel")
  /\ UNCHANGED <<pc, mounts, queue, tasks, storage, reads>>

\* The trash button of a next-step row.  The button has no type attribute,
\* so inside the <form> it is a submit button: its click handler calls
\* removeNextStep, and the default action of the click submits the form
\* unless the row (and the button with it) has left the document by then.
\* A click the browser delivers finds the row gone (submits = FALSE); a
\* click dispatched from a script finds it in place, and the submit handler
\* of the render the click was made in saves the draft it closed over
\* (submits = TRUE).
NextStepTrashClick(j, submits) ==
  /\ InForm
  /\ j \in DOMAIN task.nextSteps
  /\ Acted
  /\ IF submits /\ Valid(task)
     THEN SubmitForm(task, "trashSave")
     ELSE /\ task' = removeNextStep(task, task.nextSteps[j].id)
          /\ ev' = Ev("trash")
          /\ UNCHANGED <<pc, mounts, queue, tasks, storage, showModal,
                         editing, nsText, nsDate, formKind, reads>>

Next ==
  \/ LoadEffect
  \/ PersistEffect
  \/ Render
  \/ \E id \in uid : AddTaskClick(id)
  \/ \E i \in DOMAIN tasks : EditClick(i)
  \/ \E i \in DOMAIN tasks : OnToggleComplete(i)
  \/ \E i \in DOMAIN tasks : OnRemove(i)
  \/ \E f \in Files \cup {Export(tasks)} : ImportChange(f)
  \/ \E k \in DOMAIN reads : ReaderOnload(k)
  \/ \E v \in TitleInputs : TitleChange(v)
  \/ \E c \in Range(CATEGORIES) : CategoryChange(c)
  \/ \E st \in Range(STATUSES) : StatusChange(st)
  \/ \E d \in DateInputs : DueDateChange(d)
  \/ \E v \in DescriptionInputs : DescriptionChange(v)
  \/ \E v \in NsTextInputs : NsTextChange(v)
  \/ \E d \in DateInputs : NsDateChange(d)
  \/ \E id \in uid : addNextStep(id)
  \/ \E j \in DOMAIN task.nextSteps, b \in BOOLEAN : NextStepTrashClick(j, b)
  \/ SaveClick
  \/ CancelClick

Spec == Init /\ [][Next]_vars

\* the program on a browser whose storage may refuse a write
NextStorageFull ==
  \/ Next
  \/ PersistEffectThrows

SpecStorageFull == Init /\ [][NextStorageFull]_vars

\* ------------------------------------------------------------------------
\* Sorting and the nearest next-step
\* ------------------------------------------------------------------------
\* the day 9999-01-01, counted like Today
Year9999 == 2912000

\* An ISO date (YYYY-MM-DD) as a string is given by its rank among the
\* strings the program compares: dates compare as their days do.
DateString(d) == 2 * d

\* the string "9999": above every date of an earlier year and, being a
\* prefix of them, below every date of the year 9999
String9999 == 2 * Year9999 - 1

\* a.localeCompare(b) on such strings: negative, zero or positive
localeCompare(a, b) == IF a < b THEN -1 ELSE IF a > b THEN 1 ELSE 0

\* Array.prototype.sort with a comparator is stable: the place of entry k is
\* one more than the number of entries that compare below it or compare equal
\* and stand before it.  cmp[m][k] is what the comparator returns for the
\* entries m and k; the value is the sequence of the places sorted from.
SortOrder(cmp) ==
  LET n == Len(cmp)
      place(k) == 1 + Cardinality({m \in 1..n :
                        \/ cmp[m][k] < 0
                        \/ cmp[m][k] = 0 /\ m < k})
  IN [i \in 1..n |-> CHOOSE k \in 1..n : place(k) = i]

\* arr.sort(comparator), as a new sequence
Sort(arr, cmp) == LET o == SortOrder(cmp) IN [i \in DOMAIN arr |-> arr[o[i]]]

\* A next-step chosen from task.nextSteps is given by its place in that
\* array; 0 stands for undefined and for null.
None == 0

\* nearestNextStep that takes the last of the dated next-steps
nearestNextStepLast(t) ==
  LET ns == t.nextSteps
      withDates == SelectSeq([j \in DOMAIN ns |-> j],
                             LAMBDA j : Truthy(ns[j].dueDate))
  IN IF Len(ns) = 0 THEN None
     ELSE IF Len(withDates) = 0 THEN 1
     ELSE Sort(withDates,
               [x \in DOMAIN withDates |-> [y \in DOMAIN withDates |->
                  localeCompare(DateString(ns[withDates[y]].dueDate),
                                DateString(ns[withDates[x]].dueDate))]])[1]

\* nearestNextStep(task), used by the table
nearestNextStep(t) ==
  LET ns == t.nextSteps
      withDates == SelectSeq([j \in DOMAIN ns |-> j],
                             LAMBDA j : Truthy(ns[j].dueDate))
  IN IF Len(ns) = 0 THEN None
     ELSE IF Len(withDates) = 0 THEN 1
     ELSE Sort(withDates,
               [x \in DOMAIN withDates |-> [y \in DOMAIN withDates |->
                  localeCompare(DateString(ns[withDates[x]].dueDate),
                                DateString(ns[withDates[y]].dueDate))]])[1]

\* the callback TaskCard gives to reduce
NnStep(ns, acc, cur) ==
  IF acc = None THEN cur
  ELSE IF ~Truthy(ns[acc].dueDate)
       THEN (IF Truthy(ns[cur].dueDate) THEN cur ELSE acc)
  ELSE IF ~Truthy(ns[cur].dueDate) THEN acc
  ELSE IF DateString(ns[acc].dueDate) <= DateString(ns[cur].dueDate)
       THEN acc ELSE cur

\* task.nextSteps.reduce(callback, null), from place k on
RECURSIVE NnReduce(_, _, _)
NnReduce(ns, acc, k) ==
  IF k > Len(ns) THEN acc ELSE NnReduce(ns, NnStep(ns, acc, k), k + 1)

\* `nn` of TaskCard, used by the grid
TaskCardNn(t) ==
  IF Len(t.nextSteps) > 0 THEN NnReduce(t.nextSteps, None, 1) ELSE None

\* a control of the header, the filter bar or the calendar can be used
OnView ==
  /\ pc = "ready"
  /\ ~showModal
  /\ nActs < MaxViewActs

\* onClick of the Grid, Table and Calendar buttons
SetView(v) ==
  /\ OnView
  /\ view' = v
  /\ Counted
  /\ ev' = Ev("view")
  /\ UNCHANGED <<pc, mounts, queue, tasks, storage, formVars, reads>>
  /\ UNCHANGED <<query, activeCategories, statusFilter, sortKey,
                 calendarCursor, calendarMode, tz, now>>

Views == {"grid", "table", "calendar"}

\* the page some time after it was opened, holding the list ts
Opened(ts) ==
  /\ pc = "ready"
  /\ mounts = 1
  /\ queue = <<>>
  /\ tasks = ts
  /\ storage = Stringify(ts)
  /\ showModal = FALSE
  /\ editing = NullTask
  /\ task = NullTask
  /\ nsText = <<>>
  /\ nsDate = EmptyStr
  /\ formKind = "none"
  /\ reads = <<>>
  /\ nActs = 0
  /\ boot = Forgotten
  /\ ev = Ev("init")

\* dueDate of a next-step: no key, undefined, "", and two days
NearestDates == {NoKey, Undefined, EmptyStr, Today + 1, Today + 2}

\* the next-step arrays of up to MaxNearest entries
NearestLists ==
  UNION { { [j \in 1..n |-> NextStep(j, <<"n">>, f[j])] :
              f \in [1..n -> NearestDates] } : n \in 0..MaxNearest }

InitNearest ==
  /\ tz = 0
  /\ now = Noon
  /\ ViewInit
  /\ \E ns \in NearestLists :
        Opened(<< Task(1, <<"t">>, <<>>, "Family", "Active", NoKey, ns) >>)

NextNearest == \E v \in Views : SetView(v)

\* one task with any next-steps, looked at in the grid and in the table
SpecNearest == InitNearest /\ [][NextNearest]_vars

\* ------------------------------------------------------------------------
\* Filters, sorting, grouping and metrics
\* ------------------------------------------------------------------------
\* String.prototype.toLowerCase on the letters used
ToLowerCase(s) ==
  [i \in DOMAIN s |->
     CASE s[i] = "B" -> "b" [] s[i] = "D" -> "d" [] s[i] = "G" -> "g"
       [] s[i] = "M" -> "m" [] s[i] = "P" -> "p" [] OTHER -> s[i]]

\* s.includes(q)
includes(s, q) ==
  \E k \in 0..(Len(s) - Len(q)) : SubSeq(s, k + 1, k + Len(q)) = q

\* the rank of a category name among the names, as localeCompare orders them
CategoryString(c) ==
  CASE c = "Business" -> 1 [] c = "Dealership" -> 2 [] c = "Family" -> 3
    [] c = "Personal" -> 4 [] c = "Spiritual" -> 5 [] OTHER -> 6

\* a.dueDate || "9999"
DueString(t) ==
  IF Truthy(t.dueDate) THEN DateString(t.dueDate) ELSE String9999

\* a.dueDate || "", the undated tasks first
DueStringFirst(t) == IF Truthy(t.dueDate) THEN DateString(t.dueDate) ELSE 0

\* sorter[k](a, b) with the undated tasks first
sorterFirst(k, a, b) ==
  CASE k = "dueDate" -> localeCompare(DueStringFirst(a), DueStringFirst(b))
    [] k = "createdAt" -> localeCompare(b.createdAt, a.createdAt)
    [] k = "category" -> localeCompare(CategoryString(a.category),
                                       CategoryString(b.category))

\* sorter[k](a, b)
sorter(k, a, b) ==
  CASE k = "dueDate" -> localeCompare(DueString(a), DueString(b))
    [] k = "createdAt" -> localeCompare(b.createdAt, a.createdAt)
    [] k = "category" -> localeCompare(CategoryString(a.category),
                                       CategoryString(b.category))

\* `list` of the memo `filtered` before it is sorted, without the category
\* filter
matchingAnyCategory ==
  LET q == ToLowerCase(Trim(query))
      byStatus == IF statusFilter # "All"
                  THEN SelectSeq(tasks, LAMBDA t : t.status = statusFilter)
                  ELSE tasks
  IN IF q # <<>>
     THEN SelectSeq(byStatus, LAMBDA t :
            \/ includes(ToLowerCase(t.title), q)
            \/ includes(ToLowerCase(t.description), q)
            \/ \E j \in DOMAIN t.nextSteps :
                  includes(ToLowerCase(t.nextSteps[j].text), q))
     ELSE byStatus

\* `list` of the memo `filtered` before it is sorted
matching ==
  LET q == ToLowerCase(Trim(query))
      byCat == SelectSeq(tasks,
                 LAMBDA t : t.category \in Range(activeCategories))
      byStatus == IF statusFilter # "All"
                  THEN SelectSeq(byCat, LAMBDA t : t.status = statusFilter)
                  ELSE byCat
  IN IF q # <<>>
     THEN SelectSeq(byStatus, LAMBDA t :
            \/ includes(ToLowerCase(t.title), q)
            \/ includes(ToLowerCase(t.description), q)
            \/ \E j \in DOMAIN t.nextSteps :
                  includes(ToLowerCase(t.nextSteps[j].text), q))
     ELSE byStatus

\* the memo `filtered`
filtered ==
  LET list == matching
  IN Sort(list, [a \in DOMAIN list |-> [b \in DOMAIN list |->
                   sorter(sortKey, list[a], list[b])]])

\* what stands for the memo `byCategory` when map[t.category] is undefined
\* and push throws a TypeError
Thrown == [e \in {"TypeError"} |-> <<>>]

\* filtered.forEach((t) => map[t.category].push(t)), from place k on
RECURSIVE PushAll(_, _, _)
PushAll(list, map, k) ==
  IF map = Thrown \/ k > Len(list) THEN map
  ELSE PushAll(list,
               IF list[k].category \in DOMAIN map
               THEN [map EXCEPT ![list[k].category] = Append(@, list[k])]
               ELSE Thrown,
               k + 1)

\* the memo `byCategory`
byCategory ==
  PushAll(filtered, [c \in Range(CATEGORIES) |-> <<>>], 1)

\* isOverdue(dateISO): the last second of the day on the local clock is
\* before now.  Instants are whole hours, so 23:59:59 of a day is before
\* now exactly when midnight of the next day is not after now.
isOverdue(d) ==
  IF ~Truthy(d) THEN FALSE ELSE LocalMidnight(d + 1, tz) <= now

\* isDueWithinDays(dateISO, days)
isDueWithinDays(d, days) ==
  IF ~Truthy(d) THEN FALSE
  ELSE LET today == now
           future == now + days * HoursPerDay
           dd == ParseDateOnly(d)
       IN  /\ dd >= LocalMidnight(LocalDay(today, tz), tz)
           /\ dd <= future

\* metrics computed from the filtered list
metricsOfFiltered ==
  [total |-> Len(filtered),
   overdue |-> Len(SelectSeq(filtered, LAMBDA t : isOverdue(t.dueDate))),
   dueSoon |-> Len(SelectSeq(filtered, LAMBDA t : isDueWithinDays(t.dueDate, 3))),
   active |-> Len(SelectSeq(filtered, LAMBDA t : t.status # "Completed")),
   counts |-> [c \in Range(CATEGORIES) |->
                 Len(SelectSeq(filtered, LAMBDA t : t.category = c))]]

\* the memo `metrics`
metrics ==
  [total |-> Len(tasks),
   overdue |-> Len(SelectSeq(tasks, LAMBDA t : isOverdue(t.dueDate))),
   dueSoon |-> Len(SelectSeq(tasks, LAMBDA t : isDueWithinDays(t.dueDate, 3))),
   active |-> Len(SelectSeq(tasks, LAMBDA t : t.status # "Completed")),
   counts |-> [c \in Range(CATEGORIES) |->
                 Len(SelectSeq(tasks, LAMBDA t : t.category = c))]]

\* a change of the view leaves the task list, the form and the clock alone
ViewAct(op) ==
  /\ OnView
  /\ Counted
  /\ ev' = Ev(op)
  /\ UNCHANGED <<pc, mounts, queue, tasks, storage, formVars, reads, tz, now>>

\* toggleCategory(cat)
toggleCategory(cat) ==
  /\ ViewAct("toggleCategory")
  /\ activeCategories' =
        IF cat \in Range(activeCategories)
        THEN SelectSeq(activeCategories, LAMBDA c : c # cat)
        ELSE Append(activeCategories, cat)
  /\ UNCHANGED <<query, statusFilter, sortKey, view, calendarCursor,
                 calendarMode>>

\* onChange of the search input
SetQuery(q) ==
  /\ ViewAct("query")
  /\ q # query
  /\ query' = q
  /\ UNCHANGED <<activeCategories, statusFilter, sortKey, view,
                 calendarCursor, calendarMode>>

\* onChange of the status select
SetStatusFilter(st) ==
  /\ ViewAct("statusFilter")
  /\ st # statusFilter
  /\ statusFilter' = st
  /\ UNCHANGED <<query, activeCategories, sortKey, view, calendarCursor,
                 calendarMode>>

\* onChange of the sort select
SetSortKey(k) ==
  /\ ViewAct("sortKey")
  /\ k # sortKey
  /\ sortKey' = k
  /\ UNCHANGED <<query, activeCategories, statusFilter, view,
                 calendarCursor, calendarMode>>

\* ------------------------------------------------------------------------
\* Calendar
\* ------------------------------------------------------------------------
\* Every month of the model has this many days; day 0 is the first of a
\* month and a Sunday.
DaysPerMonth == 30

\* date.getDay(): 0 for Sunday
getDay(date) == LocalDay(date, tz) % 7

\* new Date(date.getFullYear(), date.getMonth() + k, 1)
FirstOfMonth(date, k) ==
  LocalMidnight(((LocalDay(date, tz) \div DaysPerMonth) + k) * DaysPerMonth, tz)

startOfMonth(date) == FirstOfMonth(date, 0)

\* addDays(date, n): setDate keeps the time of day
addDays(date, n) == date + n * HoursPerDay

\* startOfWeek(date, 0)
startOfWeek(date) == addDays(date, 0 - getDay(date))

\* the memo `calendarMatrix`
calendarMatrix ==
  LET gridStart == startOfWeek(startOfMonth(calendarCursor))
  IN [i \in 1..42 |-> addDays(gridStart, i - 1)]

\* tasksOn(date)
tasksOn(date) ==
  LET iso == IsoDay(date)
  IN SelectSeq(tasks, LAMBDA t :
       \/ t.dueDate = iso
       \/ \E j \in DOMAIN t.nextSteps : t.nextSteps[j].dueDate = iso)

\* the Dates whose tasks the calendar lists, by mode
CalendarDays ==
  CASE calendarMode = "month" -> calendarMatrix
    [] calendarMode = "week" ->
         [i \in 1..7 |-> addDays(startOfWeek(calendarCursor), i - 1)]
    [] calendarMode = "day" -> << calendarCursor >>

\* arr.slice(0, n)
slice(arr, n) == [i \in 1..(IF Len(arr) < n THEN Len(arr) ELSE n) |-> arr[i]]

\* dayTasks.slice(0, 3) of a cell of the month grid
CellShown(date) == slice(tasksOn(date), 3)

\* the number in "+n more", 0 when the line is not drawn
CellMore(date) ==
  IF Len(tasksOn(date)) > 3 THEN Len(tasksOn(date)) - 3 ELSE 0

\* onClick of Today
CalendarToday ==
  /\ ViewAct("today")
  /\ view = "calendar"
  /\ calendarCursor' = now
  /\ UNCHANGED <<query, activeCategories, statusFilter, sortKey, view,
                 calendarMode>>

\* onClick of the chevrons: k is -1 or 1
CalendarMove(k) ==
  /\ ViewAct("move")
  /\ view = "calendar"
  /\ calendarCursor' = FirstOfMonth(calendarCursor, k)
  /\ UNCHANGED <<query, activeCategories, statusFilter, sortKey, view,
                 calendarMode>>

\* onClick of Month, Week and Day
SetCalendarMode(m) ==
  /\ ViewAct("mode")
  /\ view = "calendar"
  /\ calendarMode' = m
  /\ UNCHANGED <<query, activeCategories, statusFilter, sortKey, view,
                 calendarCursor>>

CalendarModes == {"month", "week", "day"}

\* ------------------------------------------------------------------------
\* The view over a given task list
\* ------------------------------------------------------------------------
\* An imported list: a category that is not one of the five, an overdue
\* task, two tasks due the same day, tasks without a date and a task due in
\* the year 9999.
ListView ==
  << Task(11, <<"a">>, <<>>, "Family", "Active", Today + 2, <<>>),
     Task(12, <<"b">>, <<>>, "Archive", "Active", Today - 3, <<>>),
     Task(13, <<"c">>, <<>>, "Personal", "Completed", NoKey, <<>>),
     Task(14, <<"d">>, <<>>, "Family", "Pending", Today + 2, <<>>),
     Task(15, <<"e">>, <<>>, "Business", "Active", Year9999 + 1, <<>>),
     Task(16, <<"f">>, <<>>, "Family", "Active", Today, <<>>) >>

ViewStores == { seedTasks, ListA, ListDup, ListView }

QueryInputs == { <<>>, <<" ", "B">>, <<"p">> }
StatusFilters == {"All"} \cup Range(STATUSES)
SortKeys == {"dueDate", "createdAt", "category"}

InitView ==
  /\ tz = 0
  /\ now = Noon
  /\ ViewInit
  /\ \E ts \in ViewStores : Opened(ts)

NextView ==
  \/ \E v \in Views : SetView(v)
  \/ \E c \in Range(CATEGORIES) : toggleCategory(c)
  \/ \E q \in QueryInputs : SetQuery(q)
  \/ \E st \in StatusFilters : SetStatusFilter(st)
  \/ \E k \in SortKeys : SetSortKey(k)
  \/ CalendarToday
  \/ \E k \in {-1, 1} : CalendarMove(k)
  \/ \E m \in CalendarModes : SetCalendarMode(m)

\* the filters, the sort key, the view and the calendar used on a task list
SpecView == InitView /\ [][NextView]_vars

\* ------------------------------------------------------------------------
\* The calendar and the clock
\* ------------------------------------------------------------------------
\* Five entries for the day after Today, one of them by a next-step only and
\* one by its own date and a next-step, and a task due in three days.
ListBusy ==
  << Task(21, <<"a">>, <<>>, "Family", "Active", Today + 1, <<>>),
     Task(22, <<"b">>, <<>>, "Business", "Active", Today + 1, <<>>),
     Task(23, <<"c">>, <<>>, "Personal", "Pending", Today + 1, <<>>),
     Task(24, <<"d">>, <<>>, "Family", "Active", NoKey,
          << NextStep(1, <<"n">>, Today + 1) >>),
     Task(25, <<"e">>, <<>>, "Family", "Active", Today + 1,
          << NextStep(2, <<"m">>, Today + 1) >>),
     Task(26, <<"f">>, <<>>, "Family", "Active", Today + 3, <<>>) >>

\* a task due today and a task due in ten days
ListSoon ==
  << Task(31, <<"a">>, <<>>, "Family", "Active", Today, <<>>),
     Task(32, <<"b">>, <<>>, "Family", "Active", Today + 10, <<>>) >>

CalendarStores == { seedTasks, ListBusy, ListSoon }

\* hours the local clock is ahead of UTC: New York in winter, UTC, Berlin
\* in summer
Zones == {-5, 0, 2}

\* the hour of the day on the local clock
HoursOfDay == 0..(HoursPerDay - 1)

\* the page is open on the local day Today, in some zone at some hour
InitCalendar ==
  /\ tz \in Zones
  /\ \E h \in HoursOfDay : now = LocalMidnight(Today, tz) + h
  /\ ViewInit
  /\ \E ts \in CalendarStores : Opened(ts)

NextCalendar ==
  \/ \E v \in Views : SetView(v)
  \/ CalendarToday
  \/ \E k \in {-1, 1} : CalendarMove(k)
  \/ \E m \in CalendarModes : SetCalendarMode(m)

\* the calendar and the date helpers in any zone at any hour
SpecCalendar == InitCalendar /\ [][NextCalendar]_vars

\* ------------------------------------------------------------------------
\* Properties
\* ------------------------------------------------------------------------
\* the steps in which upsertTask ran
UpsertOps == {"save", "trashSave", "toggle"}

\* ids removeTask is tried with in every state: those of the list and others
ProbeIds == 0..8

\* C1: upsert(task): when the id of the task is in the list, the result has
\* the length of the list, holds the task at every position whose entry had
\* that id, and holds every entry with another id unchanged at its position;
\* otherwise the result is the task followed by the list.
C1_UpsertContract ==
  [][ev'.op \in UpsertOps =>
       LET t == ev'.task IN
         IF t.id \in Ids(tasks)
         THEN /\ Len(tasks') = Len(tasks)
              /\ \A i \in DOMAIN tasks :
                   /\ tasks[i].id = t.id => tasks'[i] = t
                   /\ tasks[i].id # t.id => tasks'[i] = tasks[i]
         ELSE /\ Len(tasks') = Len(tasks) + 1
              /\ Head(tasks') = t
              /\ Tail(tasks') = tasks]_vars

\* an edited task was saved over its entry, which is not the first of the list
C1_Witness ==
  /\ ev.op = "save"
  /\ ev.hit
  /\ \E i \in DOMAIN tasks : i > 1 /\ tasks[i] = ev.task /\ tasks[1].id # ev.task.id

\* the position an entry of prev has among the entries with another id
Rank(prev, id, i) == Cardinality({m \in 1..i : prev[m].id # id})

\* next is prev without the entries that carry the id, in the order of prev
RemovePost(prev, id, next) ==
  /\ Len(next) = Cardinality({m \in DOMAIN prev : prev[m].id # id})
  /\ \A i \in DOMAIN prev :
       prev[i].id # id => next[Rank(prev, id, i)] = prev[i]

\* C2: remove(id) leaves a list without any entry of that id (the task goes
\* with the next-steps nested in it), in which every task with another id is
\* kept, unchanged and in the same relative order; for an id that no task has,
\* the result is the list itself.
C2_RemoveContract ==
  [][/\ ev'.op = "remove" =>
          /\ RemovePost(tasks, ev'.task.id, tasks')
          /\ ev'.task.id \notin Ids(tasks')
          /\ Len(tasks') < Len(tasks)
     /\ \A id \in ProbeIds :
          /\ RemovePost(tasks', id, removeTask(tasks', id))
          /\ id \notin Ids(tasks') => removeTask(tasks', id) = tasks']_vars

\* a task with next-steps was removed from between two others
C2_Witness ==
  /\ ev.op = "remove"
  /\ ev.task.nextSteps # <<>>
  /\ ev.task.id \notin Ids(tasks)
  /\ Len(tasks) >= 2
  /\ tasks = SelectSeq(seedTasks, LAMBDA p : p.id # ev.task.id)
  /\ ev.task = seedTasks[3]

\* C3: whenever the page waits for the next user action, the stored record
\* is the serialization of the whole current task list.
C3_PersistedIsCurrent ==
  pc = "ready" => storage = Stringify(tasks)

\* a saved task whose dueDate is undefined has been written without the key
C3_Witness ==
  /\ pc = "ready"
  /\ ev.op = "persist"
  /\ nActs > 0
  /\ \E i \in DOMAIN tasks :
       /\ tasks[i].dueDate = Undefined
       /\ storage.items[i].dueDate = NoKey
  /\ storage = Stringify(tasks)

\* C4: after startup the store is a list of tasks: the stored list when the
\* record exists and parses, the five seed tasks when it is absent or does
\* not parse.
C4_StoreAfterStartup ==
  ev.op = "render" =>
    /\ pc # "crashed"
    /\ boot.kind = "array" => tasks = boot.items
    /\ boot.kind \in {"absent", "empty", "malformed"} => tasks = seedTasks

\* C5: reader.onload replaces the whole list by the array of the file; a
\* file that is malformed or holds no array leaves the list, the stored
\* record and the state of the page as they were.
C5_ImportContract ==
  [][ev'.op = "onload" =>
       IF ev'.file.kind = "array"
       THEN tasks' = ev'.file.items
       ELSE /\ tasks' = tasks
            /\ storage' = storage
            /\ pc' = "ready"]_vars

\* a list that was not empty has been replaced by the array of a file
C5_Witness ==
  /\ ev.op = "onload"
  /\ ev.file.kind = "array"
  /\ tasks = ev.file.items
  /\ storage.kind = "array"
  /\ storage.items # <<>>
  /\ \A i \in DOMAIN storage.items : storage.items[i].id \notin Ids(tasks)

\* C6, as stated: no user action is handled between the start of an import
\* and the moment its change is applied.
C6_NoActionDuringImport ==
  [][reads # <<>> => nActs' = nActs]_vars

\* C6, amended: a change of the list is made either in the very step of the
\* user action that causes it (save, toggle, delete), or by the startup
\* render, or by reader.onload, which installs the array of the file chosen
\* earlier whatever the user did in between.
C6_SyncExceptImport ==
  [][tasks' # tasks =>
       \/ /\ nActs' = nActs + 1
          /\ ev'.op \in UpsertOps \cup {"remove"}
       \/ /\ nActs' = nActs
          /\ ev'.op = "render"
          /\ nActs = 0
       \/ /\ nActs' = nActs
          /\ ev'.op = "onload"
          /\ ev'.file.kind = "array"
          /\ \E k \in DOMAIN reads : reads[k].file = ev'.file
          /\ tasks' = ev'.file.items]_vars

\* an import replaced the list after the user changed it during the read
C6_Witness ==
  /\ ev.op = "onload"
  /\ ev.during > 0
  /\ ev.file.kind = "array"
  /\ tasks = ev.file.items
  /\ storage.kind = "array"
  /\ storage.items # tasks
  /\ storage.items \notin {<<>>, ListA, Stringify(seedTasks).items}

\* C7: no two tasks of the list have the same id.
C7_UniqueIds ==
  \A i, j \in DOMAIN tasks : i # j => tasks[i].id # tasks[j].id

\* C8, as stated: saving an edit, toggling or deleting a task whose id is not
\* in the store leaves the list unchanged.
C8_AbsentIdNoOp ==
  [][/\ ev'.op \in {"save", "toggle", "remove"}
     /\ formKind' = "edit" \/ ev'.op \in {"toggle", "remove"}
     /\ ev'.task.id \notin Ids(tasks)
     => tasks' = tasks]_vars

\* C8, amended: removing an id that is not in the store leaves the list
\* unchanged; saving an edit of a task whose id is no longer in the store
\* puts the saved task at the front of the list; toggle and delete are only
\* ever run for a task of the list.
C8_AbsentIdContract ==
  [][/\ \A id \in ProbeIds :
          id \notin Ids(tasks') => removeTask(tasks', id) = tasks'
     /\ (/\ ev'.op = "save"
         /\ formKind' = "edit"
         /\ ev'.task.id \notin Ids(tasks))
        => tasks' = <<ev'.task>> \o tasks
     /\ ev'.op \in {"toggle", "remove"} => ev'.task.id \in Ids(tasks)]_vars

\* the edit of a task that an import had dropped was saved
C8_Witness ==
  /\ ev.op = "save"
  /\ formKind = "edit"
  /\ ~ev.hit
  /\ Len(tasks) >= 2
  /\ Head(tasks) = ev.task

\* C9: the steps of the form other than Save (opening it, changing a field,
\* adding or removing a next-step of the draft, closing it) leave the task
\* list and the stored record unchanged.
C9_FormLeavesStore ==
  [][/\ nActs' = nActs + 1
     /\ showModal \/ showModal'
     /\ ev'.op # "save"
     => /\ tasks' = tasks
        /\ storage' = storage]_vars

\* the status toggle-complete gives
Flipped(st) == IF st = "Completed" THEN "Active" ELSE "Completed"

\* C10: toggle-complete gives the task the status Active when it was
\* Completed and Completed otherwise, keeps its other fields and its
\* position, keeps every task with another id, and never gives Pending;
\* toggling an Active task twice gives the task back.
C10_ToggleContract ==
  [][/\ ev'.op = "toggle" =>
          \E i \in DOMAIN tasks :
            /\ ev'.task.id = tasks[i].id
            /\ Len(tasks') = Len(tasks)
            /\ tasks'[i] = [tasks[i] EXCEPT !.status = Flipped(tasks[i].status)]
            /\ tasks'[i].status # "Pending"
            /\ \A j \in DOMAIN tasks :
                 tasks[j].id # tasks[i].id => tasks'[j] = tasks[j]
     /\ \A i \in DOMAIN tasks' :
          LET once == upsertTask(tasks', ToggleNext(tasks'[i]))
              twice == upsertTask(once, ToggleNext(once[i]))
          IN /\ once[i].status \in {"Active", "Completed"}
             /\ tasks'[i].status = "Active" =>
                  /\ once[i].status = "Completed"
                  /\ twice[i] = tasks'[i]]_vars

\* a Pending task, not the first of the list, was toggled twice and is Active
C10_Witness ==
  /\ ev.op = "toggle"
  /\ Len(tasks) = Len(seedTasks)
  /\ \E i \in DOMAIN tasks :
       /\ i > 1
       /\ tasks[i] = ev.task
       /\ seedTasks[i].status = "Pending"
       /\ tasks[i] = [seedTasks[i] EXCEPT !.status = "Active"]
       /\ \A j \in DOMAIN tasks : j # i => tasks[j] = seedTasks[j]
\* C11: a persistence write that fails is not fatal: the page goes on to
\* handle user actions with the task list it had.
C11_WriteFailureNotFatal ==
  ev.op = "persistThrows" => pc # "crashed"

\* C12: exporting a task list of the store and importing the exported
\* content gives a list with the same tasks in the same order, every field
\* reading the same value, next-steps included.  Stated for every list the
\* store reaches, and for every import of a file exported from the list the
\* import replaces.
C12_RoundTrip ==
  [][ /\ FieldValues(Imported(<<>>, Export(tasks'))) = FieldValues(tasks')
      /\ (ev'.op = "onload" /\ ev'.file = Export(tasks))
            => FieldValues(tasks') = FieldValues(tasks) ]_vars

\* an import has replaced a list with a saved task (its dueDate key holding
\* undefined) by the export of that list
C12_Witness ==
  /\ ev.op = "onload"
  /\ ev.undef
  /\ ev.file = storage
  /\ tasks = ev.file.items

\* C13: for every task the table (nearestNextStep) and the grid (TaskCard)
\* choose the same next-step: none when the task has no next-steps, the first
\* in insertion order when none is dated, otherwise the one with the earliest
\* date and, among equal dates, the earliest inserted; a dated next-step
\* always wins over an undated one.
C13_SameNextStep ==
  \A i \in DOMAIN tasks :
     LET ns == tasks[i].nextSteps
         a == nearestNextStep(tasks[i])
         b == TaskCardNn(tasks[i])
         dated == {j \in DOMAIN ns : Truthy(ns[j].dueDate)}
     IN /\ a = b
        /\ Len(ns) = 0 => a = None
        /\ (Len(ns) > 0 /\ dated = {}) => a = 1
        /\ dated # {} =>
              /\ a \in dated
              /\ \A j \in dated :
                    /\ ns[a].dueDate <= ns[j].dueDate
                    /\ ns[j].dueDate = ns[a].dueDate => a <= j

\* the table is shown for a task whose first next-step is undated and whose
\* second and third carry the same date: both call sites take the second
C13_Witness ==
  /\ view = "table"
  /\ ev.op = "view"
  /\ \E i \in DOMAIN tasks :
        LET ns == tasks[i].nextSteps IN
          /\ Len(ns) = 3
          /\ ~Truthy(ns[1].dueDate)
          /\ ns[2].dueDate = Today + 1
          /\ ns[3].dueDate = Today + 1
          /\ nearestNextStep(tasks[i]) = 2
          /\ TaskCardNn(tasks[i]) = 2

\* the steps that change the view only
ViewOps == {"view", "toggleCategory", "query", "statusFilter", "sortKey",
            "today", "move", "mode"}

\* the last day of the year 9999, the last a YYYY-MM-DD string can name
LastDay == Year9999 + 364

\* what sorting by dueDate gives, the tasks due up to the day `last` being
\* those said to precede the tasks without a date
DueDateSort(last) ==
  LET sorted == filtered
      list == matching
  IN sortKey = "dueDate" =>
       /\ Len(sorted) = Len(list)
       /\ \A t \in Range(list) \cup Range(sorted) :
             Len(SelectSeq(sorted, LAMBDA u : u = t))
               = Len(SelectSeq(list, LAMBDA u : u = t))
       /\ \A i, j \in DOMAIN sorted :
             ( /\ Truthy(sorted[i].dueDate)
               /\ sorted[i].dueDate <= last
               /\ ~Truthy(sorted[j].dueDate) ) => i < j
       /\ \A i, j \in DOMAIN sorted :
             (i < j /\ Truthy(sorted[i].dueDate) /\ Truthy(sorted[j].dueDate))
                => sorted[i].dueDate <= sorted[j].dueDate
       /\ \A i \in DOMAIN list :
             SelectSeq(sorted, LAMBDA u : DueString(u) = DueString(list[i]))
               = SelectSeq(list, LAMBDA u : DueString(u) = DueString(list[i]))

\* C14: sorting by dueDate gives a permutation of the filtered list in which
\* every task with a defined due date precedes every task without one, the
\* defined due dates ascend and tasks that compare equal keep their order
\* from the store; sorting does not change the order of the store, which
\* stays the list that was persisted.
C14_DueDateSort ==
  /\ DueDateSort(LastDay)
  /\ storage = Stringify(tasks)

\* C14 as it holds: the tasks that precede every task without a due date
\* are those due before the year 9999; a date of the year 9999 sorts after
\* the tasks without one.
C14_DueDateSortBefore9999 ==
  /\ DueDateSort(Year9999 - 1)
  /\ storage = Stringify(tasks)

\* the sort key was set back to dueDate over a list with dated and undated
\* tasks and two tasks due the same day, and sorting moved tasks
C14_Witness ==
  /\ ev.op = "sortKey"
  /\ sortKey = "dueDate"
  /\ filtered # matching
  /\ \E i, j \in DOMAIN filtered :
        /\ i < j
        /\ Truthy(filtered[i].dueDate)
        /\ filtered[i].dueDate = filtered[j].dueDate
        /\ filtered[i] # filtered[j]
  /\ \E i \in DOMAIN filtered : ~Truthy(filtered[i].dueDate)

\* C15: grouping partitions the filtered and sorted list: every task of it
\* is in exactly one of the five buckets, that of its category, no bucket
\* holds another task, and a bucket keeps the order of the list; for every
\* list of the store, imported ones included.
C15_GroupingPartitions ==
  LET list == filtered
      map == byCategory
  IN /\ map # Thrown
     /\ \A i \in DOMAIN list : list[i].category \in Range(CATEGORIES)
     /\ map # Thrown =>
           \A c \in Range(CATEGORIES) :
              map[c] = SelectSeq(list, LAMBDA t : t.category = c)

\* a category was toggled over an imported list that holds a task of a
\* category outside the five, and a bucket holds two tasks
C15_Witness ==
  /\ ev.op = "toggleCategory"
  /\ \E i \in DOMAIN tasks : tasks[i].category \notin Range(CATEGORIES)
  /\ byCategory # Thrown
  /\ Len(byCategory["Family"]) > 1
  /\ Len(filtered) < Len(tasks)

\* C16: the metrics depend on the full task list only: a change of the
\* active categories, the status filter, the query, the sort key, the view
\* or the calendar leaves them as they are; total is the length of the
\* list, active the number of tasks not Completed, and the count of a
\* category the number of tasks of that category.
C16_MetricsOfFullList ==
  [][ /\ ev'.op \in ViewOps => metrics' = metrics
      /\ metrics'.total = Len(tasks')
      /\ metrics'.active =
            Cardinality({i \in DOMAIN tasks' : tasks'[i].status # "Completed"})
      /\ \A c \in Range(CATEGORIES) :
            metrics'.counts[c] =
              Cardinality({i \in DOMAIN tasks' : tasks'[i].category = c}) ]_vars

\* a filter hides tasks that the metrics still count, among them an overdue
\* one and one due soon
C16_Witness ==
  /\ ev.op \in {"toggleCategory", "statusFilter", "query"}
  /\ Len(filtered) < Len(tasks)
  /\ metrics.total = Len(tasks)
  /\ metrics.overdue > 0
  /\ metrics.dueSoon > 0

\* the tasks of the store with that day as their own due date or as the due
\* date of a next-step, each once
DueOn(day) ==
  SelectSeq(tasks, LAMBDA t :
    \/ t.dueDate = day
    \/ \E j \in DOMAIN t.nextSteps : t.nextSteps[j].dueDate = day)

\* C17: the tasks the calendar lists for a day are exactly those whose own
\* due date is that calendar day or that have a next-step due that day, each
\* once; a cell of the month grid shows the first 3 of them and, when there
\* are n > 3, an overflow count of n - 3.
C17_TasksOfTheDay ==
  view = "calendar" =>
    \A k \in DOMAIN CalendarDays :
       LET date == CalendarDays[k]
           due == DueOn(LocalDay(date, tz))
       IN /\ tasksOn(date) = due
          /\ calendarMode = "month" =>
                /\ Len(CellShown(date)) = IF Len(due) > 3 THEN 3 ELSE Len(due)
                /\ \A i \in DOMAIN CellShown(date) : CellShown(date)[i] = due[i]
                /\ CellMore(date) = IF Len(due) > 3 THEN Len(due) - 3 ELSE 0

\* due dates isDueWithinDays is tried with
ProbeDates ==
  {NoKey, Undefined, EmptyStr, Today + 10}
    \cup ((Today - 2)..(Today + MaxDays + 2))

\* C18: at every time of day, isDueWithinDays(date, days) holds exactly when
\* the date is defined and, as a calendar date, lies in [today, today + days];
\* a task due today is counted in dueSoon and a task due in 10 days is not.
C18_DueWithinDays ==
  LET today == LocalDay(now, tz) IN
    /\ \A d \in ProbeDates, days \in 0..MaxDays :
          isDueWithinDays(d, days) <=>
            (Truthy(d) /\ today <= d /\ d <= today + days)
    /\ metrics.dueSoon =
          Cardinality({i \in DOMAIN tasks :
             /\ Truthy(tasks[i].dueDate)
             /\ today <= tasks[i].dueDate
             /\ tasks[i].dueDate <= today + 3})

\* C19: startup never damages persisted data: when the record holds a valid
\* task list at page load, it holds that list in every state up to the first
\* user action, between the mount effects and the first re-render and when
\* the mount effects run twice included.
C19_StartupKeepsRecord ==
  (boot.kind = "array" /\ nActs = 0) => storage = boot

====
